---- MODULE Spec2Model ----
\* Model of the weekly-digest pipeline: the retrying fetcher
\* (ReadwiseClient._make_request), the two paginated sources
\* (get_archived_documents, get_recent_highlights), the aggregator
\* (DataProcessor.process_weekly_data), the renderer
\* (MarkdownGenerator.generate_digest) and the pipeline run
\* (run_digest_generation) with its publisher (create_or_update_file).
EXTENDS Integers, Sequences, FiniteSets, TLC

VARIABLES req, arch, rec, flt, run, dig

vars == <<req, arch, rec, flt, run, dig>>

-----------------------------------------------------------------------------
\* Python values

\* Python None / JSON null, and a dictionary key that is not there.
None == "<None>"
Absent == "<absent>"

\* dict.get(key): a missing key reads as None.
Get(d, k) == IF d[k] = Absent THEN None ELSE d[k]

\* Truthiness of an optional string: None and "" are falsy.
Truthy(s) == s # None /\ s # Absent /\ s # ""

-----------------------------------------------------------------------------
\* ReadwiseClient._make_request

max_retries_one_more == 3 + 1
max_retries == 3
base_delay == 1

\* Retry-After header texts a server can send (Absent: no header).
RetryAfterDate == "Wed, 21 Oct 2015 07:28:00 GMT"
RetryAfterValues == {Absent, "5", "-1", RetryAfterDate}

\* int(text) on a header text: the value, or ValueError (ok = FALSE).
PyInt(s) ==
  CASE s = "5" -> [ok |-> TRUE, val |-> 5]
    [] s = "-1" -> [ok |-> TRUE, val |-> 0 - 1]
    [] OTHER -> [ok |-> FALSE, val |-> 0]

\* Statuses the transport can answer with besides 200 and 429.
ErrorStatuses == {404, 500}

NoJson == [results |-> <<>>]

\* What one session.request can produce: a transport exception or a response
\* with an error status or a 429, or a 200 response with a JSON body.
FailureResponses ==
       {[kind |-> "exception", status |-> 0, retry_after |-> Absent, body |-> NoJson]}
  \cup {[kind |-> "response", status |-> s, retry_after |-> Absent, body |-> NoJson]
          : s \in ErrorStatuses}
  \cup {[kind |-> "response", status |-> 429, retry_after |-> h, body |-> NoJson]
          : h \in RetryAfterValues}

SuccessResponses(bodies) ==
  {[kind |-> "response", status |-> 200, retry_after |-> Absent, body |-> b]
     : b \in bodies}

Responses(bodies) == FailureResponses \cup SuccessResponses(bodies)

NoError == [type |-> "", message |-> "", cause |-> "", status |-> 0]

\* A _make_request call that has not been made.
IdleRequest ==
  [status |-> "idle", attempt |-> 0, waits |-> <<>>, resps |-> <<>>,
   error |-> NoError, body |-> NoJson]

\* State on entry of _make_request, before the first loop iteration.
NewRequest == [IdleRequest EXCEPT !.status = "running"]

\* base_delay * (2 ** attempt)
BackoffDelayLinear(attempt) == base_delay * (2 * attempt)
BackoffDelay(attempt) == base_delay * (2 ^ attempt)

\* response.raise_for_status(): HTTPError for 4xx and 5xx.
RaisesForStatus(status) == status >= 400 /\ status < 600

\* The except clause: give up on the last attempt, else sleep and loop.
OnRequestException(rq, hist, cause, status) ==
  IF rq.attempt = max_retries - 1
  THEN [rq EXCEPT !.resps = hist, !.status = "raised",
                  !.error = [type |-> "ReadwiseAPIError",
                             message |-> "Request failed after 3 attempts",
                             cause |-> cause, status |-> status]]
  ELSE [rq EXCEPT !.resps = hist,
                  !.waits = Append(rq.waits, BackoffDelay(rq.attempt)),
                  !.attempt = rq.attempt + 1]

\* The 429 branch: int(Retry-After or default), sleep, continue; falling out
\* of the loop raises "Max retries exceeded".
OnRateLimited(rq, hist, r) ==
  LET retry_after == IF r.retry_after = Absent
                     THEN [ok |-> TRUE, val |-> BackoffDelay(rq.attempt)]
                     ELSE PyInt(r.retry_after)
  IN  IF ~retry_after.ok
      THEN [rq EXCEPT !.resps = hist, !.status = "raised",
                      !.error = [type |-> "ValueError",
                                 message |-> "invalid literal for int()",
                                 cause |-> "", status |-> 0]]
      ELSE IF retry_after.val < 0
      THEN [rq EXCEPT !.resps = hist, !.status = "raised",
                      !.error = [type |-> "ValueError",
                                 message |-> "sleep length must be non-negative",
                                 cause |-> "", status |-> 0]]
      ELSE IF rq.attempt + 1 < max_retries
      THEN [rq EXCEPT !.resps = hist,
                      !.waits = Append(rq.waits, retry_after.val),
                      !.attempt = rq.attempt + 1]
      ELSE [rq EXCEPT !.resps = hist,
                      !.waits = Append(rq.waits, retry_after.val),
                      !.status = "raised",
                      !.error = [type |-> "ReadwiseAPIError",
                                 message |-> "Max retries exceeded",
                                 cause |-> "", status |-> 0]]

\* One iteration of the retry loop, the transport producing r.
make_request_step(rq, r) ==
  LET hist == Append(rq.resps, r)
  IN  IF r.kind = "exception"
      THEN OnRequestException(rq, hist, "ConnectionError", 0)
      ELSE IF r.status = 429
      THEN OnRateLimited(rq, hist, r)
      ELSE IF RaisesForStatus(r.status)
      THEN OnRequestException(rq, hist, "HTTPError", r.status)
      ELSE [rq EXCEPT !.resps = hist, !.status = "returned", !.body = r.body]

-----------------------------------------------------------------------------
\* Timestamps and records of the Reader API

\* ISO-8601 texts a record can carry, with the day of January 2023 they name.
TsOld == "2023-01-01T00:00:00Z"
TsAt == "2023-01-03T00:00:00+00:00"
TsNew == "2023-01-05T00:00:00Z"
TsNaive == "2023-01-05T00:00:00"
TsBad == "not-a-date"

\* datetime.fromisoformat(s.replace('Z', '+00:00')): an aware or naive
\* datetime, or ValueError (ok = FALSE).
ParseTimestamp(s) ==
  CASE s = TsOld -> [ok |-> TRUE, aware |-> TRUE, t |-> 1]
    [] s = TsAt -> [ok |-> TRUE, aware |-> TRUE, t |-> 3]
    [] s = TsNew -> [ok |-> TRUE, aware |-> TRUE, t |-> 5]
    [] s = TsNaive -> [ok |-> TRUE, aware |-> FALSE, t |-> 5]
    [] OTHER -> [ok |-> FALSE, aware |-> FALSE, t |-> 0]

\* start_date of a run: timezone-aware, 2023-01-03T00:00:00+00:00.
StartDate == [aware |-> TRUE, t |-> 3]

\* start_date.isoformat().replace('+00:00', 'Z')
IsoFormatZ(d) ==
  CASE d.aware /\ d.t = 1 -> "2023-01-01T00:00:00Z"
    [] d.aware /\ d.t = 3 -> "2023-01-03T00:00:00Z"
    [] d.aware /\ d.t = 5 -> "2023-01-05T00:00:00Z"
    [] ~d.aware /\ d.t = 3 -> "2023-01-03T00:00:00"
    [] OTHER -> "2023-01-05T00:00:00"

\* The decision of the filter loop on one document: "keep", "drop", or the
\* exception that escapes (fromisoformat's ValueError, or the TypeError of
\* comparing a naive with an aware datetime).
DecideBy(ts, doc, start_date) ==
  LET moved == ParseTimestamp(ts) IN
  IF ~moved.ok THEN "ValueError"
  ELSE IF moved.aware # start_date.aware THEN "TypeError"
  ELSE IF moved.t >= start_date.t /\ Get(doc, "location") = "archive" THEN "keep"
  ELSE "drop"

DocVerdictEither(doc, start_date) ==
  LET last_moved_str == Get(doc, "last_moved_at")
      updated_str == Get(doc, "updated_at")
  IN  IF Truthy(last_moved_str) /\ DecideBy(last_moved_str, doc, start_date) # "drop"
      THEN DecideBy(last_moved_str, doc, start_date)
      ELSE IF Truthy(updated_str) THEN DecideBy(updated_str, doc, start_date)
      ELSE "drop"
DocVerdict(doc, start_date) ==
  LET last_moved_str == Get(doc, "last_moved_at")
      updated_str == Get(doc, "updated_at")
  IN  IF Truthy(last_moved_str) THEN DecideBy(last_moved_str, doc, start_date)
      ELSE IF Truthy(updated_str) THEN DecideBy(updated_str, doc, start_date)
      ELSE "drop"

IsException(v) == v \in {"ValueError", "TypeError"}

\* The loop over one page's documents: the list built when no document
\* raises, else the exception of the first document that raises.
FilterDocuments(documents, start_date) ==
  LET raising == {i \in 1..Len(documents) : IsException(DocVerdict(documents[i], start_date))}
  IN  IF raising # {}
      THEN [error |-> DocVerdict(documents[CHOOSE i \in raising : \A j \in raising : i <= j],
                                 start_date),
            filtered |-> <<>>]
      ELSE [error |-> "",
            filtered |-> SelectSeq(documents, LAMBDA d : DocVerdict(d, start_date) = "keep")]

\* All sequences over S of length at most n.
SeqsUpTo(S, n) == UNION {[1..k -> S] : k \in 0..n}

-----------------------------------------------------------------------------
\* ReadwiseClient.get_archived_documents

\* Largest number of pages a server holds, and of records on all its pages.
MaxPages == 3
MaxRecords == 4

\* The number of records on the pages served so far.
RECURSIVE CountRecords(_)
CountRecords(pages) ==
  IF pages = <<>> THEN 0 ELSE Len(Head(pages).results) + CountRecords(Tail(pages))

DocKeptByMoved ==
  [location |-> "archive", last_moved_at |-> TsNew, updated_at |-> TsOld]
DocKeptByUpdated ==
  [location |-> "archive", last_moved_at |-> Absent, updated_at |-> TsAt]
DocMovedTooEarly ==
  [location |-> "archive", last_moved_at |-> TsOld, updated_at |-> TsNew]
DocMalformed ==
  [location |-> "archive", last_moved_at |-> TsBad, updated_at |-> TsNew]

DocSamples == {DocKeptByMoved, DocKeptByUpdated, DocMovedTooEarly, DocMalformed}

\* The opaque cursor a server hands out with its page number n.
CursorAfter(n) ==
  CASE n = 1 -> "cursor-1"
    [] n = 2 -> "cursor-2"
    [] n = 3 -> "cursor-3"
    [] OTHER -> "cursor-4"

\* JSON bodies the list endpoint can answer the request for page number n
\* with; the server's last page carries no cursor.
DocPages(samples, len, n) ==
  {[results |-> rs, nextPageCursor |-> c] :
     rs \in SeqsUpTo(samples, len),
     c \in IF n >= MaxPages THEN {None} ELSE {None, CursorAfter(n)}}

\* The transport outcomes the sources are exercised with: two failures that
\* are retried, one that ends the call at once, and every body.
SourceFailures ==
  {r \in FailureResponses : \/ r.kind = "exception"
                            \/ r.status = 500
                            \/ r.status = 429 /\ r.retry_after = RetryAfterDate}

SourceResponses(bodies) == SourceFailures \cup SuccessResponses(bodies)

\* params of one request of the walk.
ArchivedParamsNoCursor(start_date_iso, page_cursor) ==
  [location |-> "archive", updatedAfter |-> start_date_iso, pageCursor |-> Absent]
ArchivedParams(start_date_iso, page_cursor) ==
  [location |-> "archive", updatedAfter |-> start_date_iso,
   pageCursor |-> IF Truthy(page_cursor) THEN page_cursor ELSE Absent]

\* Entry of get_archived_documents up to the first _make_request.
archived_call(start_date) ==
  [status |-> "running", start_date |-> start_date,
   all_documents |-> <<>>, page_cursor |-> None,
   requests |-> <<ArchivedParams(IsoFormatZ(start_date), None)>>,
   served |-> <<>>, error |-> NoError]

\* The exception of a failed _make_request leaves the walk.
archived_raise(a, error) == [a EXCEPT !.status = "raised", !.error = error]

\* The rest of a loop iteration once _make_request returned body: filter,
\* extend, read the cursor, and either return or build the next request.
archived_page_replace(a, body) ==
  LET f == FilterDocuments(body.results, a.start_date)
      page_cursor == Get(body, "nextPageCursor")
      seen == [a EXCEPT !.served = Append(a.served, body)]
  IN  IF f.error # ""
      THEN [seen EXCEPT !.status = "raised",
                        !.error = [type |-> f.error, message |-> "", cause |-> "", status |-> 0]]
      ELSE IF ~Truthy(page_cursor)
      THEN [seen EXCEPT !.status = "returned",
                        !.all_documents = f.filtered,
                        !.page_cursor = page_cursor]
      ELSE [seen EXCEPT !.all_documents = f.filtered,
                        !.page_cursor = page_cursor,
                        !.requests = Append(a.requests,
                            ArchivedParams(IsoFormatZ(a.start_date), page_cursor))]
archived_page(a, body) ==
  LET f == FilterDocuments(body.results, a.start_date)
      page_cursor == Get(body, "nextPageCursor")
      seen == [a EXCEPT !.served = Append(a.served, body)]
  IN  IF f.error # ""
      THEN [seen EXCEPT !.status = "raised",
                        !.error = [type |-> f.error, message |-> "", cause |-> "", status |-> 0]]
      ELSE IF ~Truthy(page_cursor)
      THEN [seen EXCEPT !.status = "returned",
                        !.all_documents = a.all_documents \o f.filtered,
                        !.page_cursor = page_cursor]
      ELSE [seen EXCEPT !.all_documents = a.all_documents \o f.filtered,
                        !.page_cursor = page_cursor,
                        !.requests = Append(a.requests,
                            ArchivedParams(IsoFormatZ(a.start_date), page_cursor))]

IdleArchived ==
  [status |-> "idle", start_date |-> StartDate, all_documents |-> <<>>,
   page_cursor |-> None, requests |-> <<>>, served |-> <<>>, error |-> NoError]
IdleFilter == [status |-> "idle"]

-----------------------------------------------------------------------------
\* ReadwiseClient.get_recent_highlights

HighlightNew == [text |-> "Deep work", highlighted_at |-> TsNew]
HighlightOldEmpty == [text |-> "", highlighted_at |-> TsOld]
HighlightNullText == [text |-> None, highlighted_at |-> TsNew]

HighlightSamples == {HighlightNew, HighlightOldEmpty, HighlightNullText}

page_size == 1000

\* The URL of the page after page number n, as the server reports it.
NextUrl(n) ==
  CASE n = 1 -> "https://readwise.io/api/v2/highlights/?page=2"
    [] n = 2 -> "https://readwise.io/api/v2/highlights/?page=3"
    [] n = 3 -> "https://readwise.io/api/v2/highlights/?page=4"
    [] OTHER -> "https://readwise.io/api/v2/highlights/?page=5"

\* JSON bodies the highlights endpoint can answer the request for page
\* number n with; the server's last page reports no next page.
HighlightPages(samples, len, n) ==
  {[results |-> rs, next |-> u] :
     rs \in SeqsUpTo(samples, len),
     u \in IF n >= MaxPages THEN {None} ELSE {None, NextUrl(n)}}

RecentParams(start_date_iso, page) ==
  [highlighted_at__gt |-> start_date_iso, page_size |-> page_size, page |-> page]

\* Entry of get_recent_highlights up to the first _make_request.
recent_call(start_date) ==
  [status |-> "running", start_date |-> start_date,
   all_highlights |-> <<>>, page |-> 1,
   requests |-> <<RecentParams(IsoFormatZ(start_date), 1)>>,
   served |-> <<>>, error |-> NoError]

recent_raise(h, error) == [h EXCEPT !.status = "raised", !.error = error]

\* The rest of a loop iteration once _make_request returned body.
recent_page_break_first(h, body) ==
  LET highlights == body.results
      seen == [h EXCEPT !.served = Append(h.served, body)]
  IN  IF highlights = <<>> \/ ~Truthy(Get(body, "next"))
      THEN [seen EXCEPT !.status = "returned"]
      ELSE [seen EXCEPT !.all_highlights = h.all_highlights \o highlights,
                        !.page = h.page + 1,
                        !.requests = Append(h.requests,
                            RecentParams(IsoFormatZ(h.start_date), h.page + 1))]
recent_page(h, body) ==
  LET highlights == body.results
      seen == [h EXCEPT !.served = Append(h.served, body)]
  IN  IF highlights = <<>>
      THEN [seen EXCEPT !.status = "returned"]
      ELSE IF ~Truthy(Get(body, "next"))
      THEN [seen EXCEPT !.status = "returned",
                        !.all_highlights = h.all_highlights \o highlights]
      ELSE [seen EXCEPT !.all_highlights = h.all_highlights \o highlights,
                        !.page = h.page + 1,
                        !.requests = Append(h.requests,
                            RecentParams(IsoFormatZ(h.start_date), h.page + 1))]

IdleRecent ==
  [status |-> "idle", start_date |-> StartDate, all_highlights |-> <<>>,
   page |-> 1, requests |-> <<>>, served |-> <<>>, error |-> NoError]

-----------------------------------------------------------------------------
\* DataProcessor (process_weekly_data) and MarkdownGenerator (generate_digest)

NoReport == [made |-> FALSE]
NoMarkdown == [made |-> FALSE, error |-> ""]

\* d.get(k, default): the default stands in for a missing key only; a key
\* that is there with a null or empty value is read as it is.
GetOr(d, k, default) ==
  IF k \in DOMAIN d
  THEN (IF d[k] = Absent THEN default ELSE d[k])
  ELSE default

\* A Python dict of counts: a function from its keys. {} has no keys.
EmptyDict == [k \in {} |-> 0]

\* collections.Counter over a list of values, as dict(counter.most_common());
\* the order of the entries is not modelled.
CounterOfDistinct(values) ==
  [k \in {values[i] : i \in DOMAIN values} |-> 1]
Counter(values) ==
  [k \in {values[i] : i \in DOMAIN values} |->
     Cardinality({i \in DOMAIN values : values[i] = k})]

\* A word_count that is JSON null; word counts themselves are naturals.
NullWordCount == 0 - 1

\* doc.get('word_count', 0) or 0
WordCountAsSent(doc) ==
  IF "word_count" \in DOMAIN doc THEN doc.word_count ELSE 0
WordCount(doc) ==
  IF "word_count" \in DOMAIN doc
  THEN (IF doc.word_count = NullWordCount \/ doc.word_count = 0
        THEN 0 ELSE doc.word_count)
  ELSE 0

\* total_word_count += word_count over the documents
RECURSIVE TotalWordCount(_)
TotalWordCount(documents) ==
  IF documents = <<>> THEN 0
  ELSE WordCount(Head(documents)) + TotalWordCount(Tail(documents))

\* processed_doc of one document
ProcessedDoc(doc) ==
  [title |-> GetOr(doc, "title", "Untitled"),
   source |-> GetOr(doc, "source", "unknown"),
   category |-> GetOr(doc, "category", "unknown"),
   location |-> GetOr(doc, "location", "unknown"),
   word_count |-> WordCount(doc),
   last_moved_at |-> GetOr(doc, "last_moved_at", ""),
   updated_at |-> GetOr(doc, "updated_at", "")]

\* _process_archived_documents: totals, the three breakdowns and the
\* processed documents in the order of the input.
process_archived_documents(documents) ==
  IF documents = <<>>
  THEN [total_count |-> 0, total_word_count |-> 0,
        category_breakdown |-> EmptyDict, source_breakdown |-> EmptyDict,
        location_breakdown |-> EmptyDict, documents |-> <<>>]
  ELSE [total_count |-> Len(documents),
        total_word_count |-> TotalWordCount(documents),
        category_breakdown |->
          Counter([i \in DOMAIN documents |-> GetOr(documents[i], "category", "unknown")]),
        source_breakdown |->
          Counter([i \in DOMAIN documents |-> GetOr(documents[i], "source", "unknown")]),
        location_breakdown |->
          Counter([i \in DOMAIN documents |-> GetOr(documents[i], "location", "unknown")]),
        documents |-> [i \in DOMAIN documents |-> ProcessedDoc(documents[i])]]

\* Texts with surrounding whitespace, and what str.strip() makes of a text.
TextPadded == "  Stay curious "
TextBlank == "   "
NotePadded == " why? "

Strip(s) ==
  CASE s = TextPadded -> "Stay curious"
    [] s = TextBlank -> ""
    [] s = NotePadded -> "why?"
    [] OTHER -> s

\* highlight.get('text', '')
HighlightText(highlight) == GetOr(highlight, "text", "")

\* source = 'unknown': the source is not resolved from the highlight record.
HighlightSourceOfBook(highlight) == GetOr(highlight, "book_id", "unknown")
HighlightSource(highlight) == "unknown"

\* processed_highlight of a highlight that is kept
ProcessedHighlightUntrimmed(highlight) ==
  [text |-> HighlightText(highlight),
   note |-> GetOr(highlight, "note", ""),
   location |-> GetOr(highlight, "location", ""),
   highlighted_at |-> GetOr(highlight, "highlighted_at", ""),
   book_id |-> GetOr(highlight, "book_id", None),
   source |-> HighlightSource(highlight),
   readwise_url |-> GetOr(highlight, "readwise_url", "")]
ProcessedHighlight(highlight) ==
  [text |-> Strip(HighlightText(highlight)),
   note |-> Strip(GetOr(highlight, "note", "")),
   location |-> GetOr(highlight, "location", ""),
   highlighted_at |-> GetOr(highlight, "highlighted_at", ""),
   book_id |-> GetOr(highlight, "book_id", None),
   source |-> HighlightSource(highlight),
   readwise_url |-> GetOr(highlight, "readwise_url", "")]

\* The loop of _process_highlights from highlight i on: .strip() on a null
\* text or note raises AttributeError and ends the loop.
RECURSIVE process_highlights_loop(_, _, _)
process_highlights_loop(highlights, i, processed_highlights) ==
  IF i > Len(highlights)
  THEN [error |-> "", processed_highlights |-> processed_highlights]
  ELSE IF HighlightText(highlights[i]) = None
  THEN [error |-> "AttributeError", processed_highlights |-> processed_highlights]
  ELSE IF Strip(HighlightText(highlights[i])) = ""
  THEN process_highlights_loop(highlights, i + 1, processed_highlights)
  ELSE IF GetOr(highlights[i], "note", "") = None
  THEN [error |-> "AttributeError", processed_highlights |-> processed_highlights]
  ELSE process_highlights_loop(highlights, i + 1,
         Append(processed_highlights, ProcessedHighlight(highlights[i])))

NoHighlightData == [total_count |-> 0, highlights |-> <<>>, source_breakdown |-> EmptyDict]

\* _process_highlights: the kept highlights and the count of their sources.
process_highlights(highlights) ==
  IF highlights = <<>>
  THEN [error |-> "", data |-> NoHighlightData]
  ELSE LET loop == process_highlights_loop(highlights, 1, <<>>)
           kept == loop.processed_highlights
       IN  IF loop.error # ""
           THEN [error |-> loop.error, data |-> NoHighlightData]
           ELSE [error |-> "",
                 data |-> [total_count |-> Len(kept),
                           highlights |-> kept,
                           source_breakdown |->
                             Counter([i \in DOMAIN kept |-> kept[i].source])]]

\* process_weekly_data: the documents, then the highlights; an exception of
\* either leaves it and no report is returned.
process_weekly_data(archived_documents, highlights) ==
  LET document_stats == process_archived_documents(archived_documents)
      highlight_data == process_highlights(highlights)
  IN  IF highlight_data.error # ""
      THEN [error |-> highlight_data.error, report |-> NoReport]
      ELSE [error |-> "",
            report |-> [made |-> TRUE,
                        documents |-> document_stats,
                        highlights |-> highlight_data.data]]

\* One "- **label**: value" line of the overview.
OverviewLine(label, value) == [label |-> label, value |-> value]

\* avg_words = total_word_count // total_count
AverageWords(documents) ==
  documents.total_word_count \div documents.total_count

\* _generate_overview: three lines, and the average after them when there
\* are documents.
generate_overview(documents, highlights) ==
  LET overview_parts ==
        <<OverviewLine("Articles Archived", documents.total_count),
          OverviewLine("Total Words Read", documents.total_word_count),
          OverviewLine("Highlights Created", highlights.total_count)>>
  IN  IF documents.total_count > 0
      THEN Append(overview_parts,
                  OverviewLine("Average Words per Article", AverageWords(documents)))
      ELSE overview_parts

\* Reading documents[key] and calling .title() or .lower() on each of its
\* keys: KeyError without the breakdown, AttributeError on a None key.
BreakdownError(documents, key) ==
  IF key \notin DOMAIN documents THEN "KeyError"
  ELSE IF None \in DOMAIN documents[key] THEN "AttributeError"
  ELSE ""

\* _generate_document_breakdowns: the headings of the sections it writes (the
\* lines under them are not modelled), or the exception it raises.
generate_document_breakdowns(documents) ==
  LET keys == <<"category_breakdown", "source_breakdown", "location_breakdown">>
      failing == {i \in 1..3 : BreakdownError(documents, keys[i]) # ""}
      first == CHOOSE i \in failing : \A j \in failing : i <= j
      heading == [i \in 1..3 |-> <<"### By Category", "### By Source", "### By Location">>[i]]
      Section(i) == IF DOMAIN documents[keys[i]] # {} THEN <<heading[i]>> ELSE <<>>
  IN  IF failing # {}
      THEN [error |-> BreakdownError(documents, keys[first]), headings |-> <<>>]
      ELSE [error |-> "",
            headings |-> <<"## Article Breakdowns">> \o Section(1) \o Section(2)
                           \o Section(3)
                           \o (IF documents.documents # <<>>
                               THEN <<"### Archived Articles">> ELSE <<>>)]

\* generate_digest: the overview, the breakdowns when there are documents,
\* the highlights section when there are highlights.
generate_digest(processed_data) ==
  LET documents == processed_data.documents
      highlights == processed_data.highlights
      overview == generate_overview(documents, highlights)
      breakdowns == IF documents.total_count > 0
                    THEN generate_document_breakdowns(documents)
                    ELSE [error |-> "", headings |-> <<>>]
  IN  IF breakdowns.error # ""
      THEN [made |-> FALSE, error |-> breakdowns.error]
      ELSE [made |-> TRUE, error |-> "",
            overview |-> overview,
            headings |-> <<"## Overview">> \o breakdowns.headings
                           \o (IF highlights.total_count > 0
                               THEN <<"## Highlights from the Past Week">>
                               ELSE <<>>)]

------------------------------------------------------------------------

\* Documents as get_archived_documents passes them on: moved on 2023-01-03,
\* never moved (null) with empty category and source, moved on 2023-01-05 with
\* nothing else known, and one whose fields are all null.
DocEarly ==
  [title |-> "Early", category |-> "article", source |-> "rss",
   location |-> "archive", word_count |-> 1201, last_moved_at |-> TsAt]
DocUnmoved ==
  [title |-> "Unmoved", category |-> "", source |-> "",
   location |-> "archive", word_count |-> 700, last_moved_at |-> None]
DocLate == [title |-> "Late", last_moved_at |-> TsNew]
DocNulls ==
  [title |-> "Nulls", category |-> None, source |-> None, location |-> None,
   word_count |-> NullWordCount, last_moved_at |-> None]

DigestDocSamples == {DocEarly, DocUnmoved, DocLate, DocNulls}

\* Highlights as get_recent_highlights passes them on.
HighlightPadded ==
  [text |-> TextPadded, note |-> NotePadded, highlighted_at |-> TsNew,
   book_id |-> "book-1"]
HighlightBlank == [text |-> TextBlank, highlighted_at |-> TsOld]
HighlightNullNote == [text |-> "Keep going", note |-> None, highlighted_at |-> TsNew]

DigestHighlightSamples ==
  {HighlightNew, HighlightPadded, HighlightOldEmpty, HighlightBlank,
   HighlightNullText, HighlightNullNote}

MaxDocs == 3
MaxHighlights == 2

\* base_processed_data of TestMarkdownGenerator with the total_word_count a
\* test sets: 5 documents, no location_breakdown, 10 highlights, none listed.
TestProcessedData(total_word_count) ==
  [made |-> TRUE,
   documents |-> [total_count |-> 5, total_word_count |-> total_word_count,
                  category_breakdown |-> EmptyDict, source_breakdown |-> EmptyDict,
                  tag_breakdown |-> EmptyDict, documents |-> <<>>],
   highlights |-> [total_count |-> 10, highlights |-> <<>>]]

\* The word counts of test_reading_time_under_hour, _exact_hour, _over_hour.
TestWordCounts == {2250, 13500, 15000}

\* The same data from an aggregator that supplies location_breakdown.
WithLocationBreakdown(processed_data) ==
  [made |-> TRUE,
   documents |-> [total_count |-> processed_data.documents.total_count,
                  total_word_count |-> processed_data.documents.total_word_count,
                  category_breakdown |-> EmptyDict, source_breakdown |-> EmptyDict,
                  location_breakdown |-> EmptyDict,
                  tag_breakdown |-> EmptyDict, documents |-> <<>>],
   highlights |-> processed_data.highlights]

TestFixtures == {TestProcessedData(w) : w \in TestWordCounts}

\* Aggregating and rendering outside a run: nothing has been called.
IdleDigest ==
  [pc |-> "idle", calls |-> <<>>, documents |-> <<>>, highlights |-> <<>>,
   processed |-> [error |-> "", report |-> NoReport], rendered |-> NoMarkdown]

\* process_weekly_data is called on the lists of dg.
digest_aggregate(dg) ==
  LET processed == process_weekly_data(dg.documents, dg.highlights)
  IN  [dg EXCEPT !.pc = IF processed.error # "" THEN "failed" ELSE "processed",
                 !.calls = Append(dg.calls, "process_weekly_data"),
                 !.processed = processed]

\* generate_digest is called on the report of dg.
digest_render(dg) ==
  LET rendered == generate_digest(dg.processed.report)
  IN  [dg EXCEPT !.pc = IF rendered.error # "" THEN "failed" ELSE "rendered",
                 !.calls = Append(dg.calls, "generate_digest"),
                 !.rendered = rendered]

-----
\* GitHubClient.create_or_update_file

\* What repo.get_contents can answer: the file (with its sha), 404, or
\* another GithubException.
ExistenceChecks == {"found", "404", "error"}

existing_sha == "sha-of-existing-file"

\* The branch the client is built for.
target_branch == "main"

NoPublish ==
  [calls |-> 0, check |-> "none", ref |-> Absent, writes |-> <<>>, result |-> "none"]

\* The write that follows the existence check.
write_after_check_create(check, content) ==
  [op |-> "create_file", sha |-> Absent, content |-> content, branch |-> target_branch]
write_after_check(check, content) ==
  IF check = "found"
  THEN [op |-> "update_file", sha |-> existing_sha, content |-> content,
        branch |-> target_branch]
  ELSE [op |-> "create_file", sha |-> Absent, content |-> content,
        branch |-> target_branch]

-----------------------------------------------------------------------------
\* run_digest_generation

IdleRun ==
  [pc |-> "idle", trace |-> <<>>, archived_documents |-> <<>>, highlights |-> <<>>,
   processed_data |-> NoReport, markdown_content |-> NoMarkdown,
   publish |-> NoPublish, error |-> ""]

\* An exception leaves run_digest_generation.
run_raise(rn, error) == [rn EXCEPT !.pc = "failed", !.error = error]

\* Environment check and client construction, up to the first fetch.
run_start(rn, env_ok, repo_ok) ==
  IF ~env_ok THEN run_raise(rn, "ValueError")
  ELSE IF ~repo_ok THEN run_raise(rn, "GitHubClientError")
  ELSE [rn EXCEPT !.pc = "fetch_documents",
                  !.trace = <<"get_archived_documents">>]

\* get_archived_documents returned: go on to get_recent_highlights.
run_documents_fetched(rn, all_documents) ==
  [rn EXCEPT !.pc = "fetch_highlights",
             !.archived_documents = all_documents,
             !.trace = Append(rn.trace, "get_recent_highlights")]

\* get_recent_highlights returned: aggregate, render, and call the publisher,
\* which first checks whether the file exists.
run_highlights_fetched(rn, all_highlights) ==
  LET processed == process_weekly_data(rn.archived_documents, all_highlights)
      fetched == [rn EXCEPT !.highlights = all_highlights,
                            !.trace = Append(rn.trace, "process_weekly_data")]
      rendered == generate_digest(processed.report)
  IN  IF processed.error # ""
      THEN run_raise(fetched, processed.error)
      ELSE IF rendered.error # ""
      THEN run_raise([fetched EXCEPT
                        !.processed_data = processed.report,
                        !.trace = Append(fetched.trace, "generate_digest")],
                     rendered.error)
      ELSE [fetched EXCEPT
              !.pc = "publish_check",
              !.processed_data = processed.report,
              !.markdown_content = rendered,
              !.trace = fetched.trace \o <<"generate_digest", "create_or_update_file">>,
              !.publish = [NoPublish EXCEPT !.calls = 1]]

\* A fetch raised: nothing around the two fetch calls catches it.
run_fetch_failed_partial(rn, error) ==
  IF rn.pc = "fetch_highlights"
  THEN run_highlights_fetched(rn, <<>>)
  ELSE run_documents_fetched(rn, <<>>)
run_fetch_failed(rn, error) == run_raise(rn, error)

\* The existence check answered: a write is issued unless the check failed.
run_publish_checked(rn, check) ==
  IF check = "error"
  THEN run_raise([rn EXCEPT !.publish.check = check,
                            !.publish.ref = target_branch,
                            !.publish.result = "raised"],
                 "GitHubClientError")
  ELSE [rn EXCEPT !.pc = "publish_write",
                  !.publish.check = check,
                  !.publish.ref = target_branch,
                  !.publish.writes = Append(rn.publish.writes,
                                            write_after_check(check, rn.markdown_content))]

\* The write answered.
run_publish_written(rn, ok) ==
  IF ok
  THEN [rn EXCEPT !.pc = "done", !.publish.result = "returned"]
  ELSE run_raise([rn EXCEPT !.publish.result = "raised"], "GitHubClientError")

-----------------------------------------------------------------------------
\* A get_archived_documents call

InitArchived ==
  /\ req = IdleRequest
  /\ arch = IdleArchived
  /\ rec = IdleRecent
  /\ flt = IdleFilter
  /\ dig = IdleDigest
  /\ run = IdleRun

ArchivedCall ==
  /\ arch.status = "idle"
  /\ arch' = archived_call(StartDate)
  /\ req' = NewRequest
  /\ UNCHANGED <<rec, flt, dig, run>>

\* One attempt of the current page's _make_request.
ArchivedAttempt ==
  /\ arch.status = "running"
  /\ req.status = "running"
  /\ \E r \in SourceResponses(DocPages(DocSamples, MaxRecords - CountRecords(arch.served),
                                       Len(arch.served) + 1)) :
       req' = make_request_step(req, r)
  /\ arch' = IF req'.status = "raised" THEN archived_raise(arch, req'.error) ELSE arch
  /\ UNCHANGED <<rec, flt, dig, run>>

ArchivedPage ==
  /\ arch.status = "running"
  /\ req.status = "returned"
  /\ arch' = archived_page(arch, req.body)
  /\ req' = IF arch'.status = "running" THEN NewRequest ELSE req
  /\ UNCHANGED <<rec, flt, dig, run>>

NextArchived ==
  \/ ArchivedCall
  \/ ArchivedAttempt
  \/ ArchivedPage

SpecArchived == InitArchived /\ [][NextArchived]_vars

-----------------------------------------------------------------------------
\* A get_recent_highlights call

InitRecent ==
  /\ req = IdleRequest
  /\ arch = IdleArchived
  /\ rec = IdleRecent
  /\ flt = IdleFilter
  /\ dig = IdleDigest
  /\ run = IdleRun

RecentCall ==
  /\ rec.status = "idle"
  /\ rec' = recent_call(StartDate)
  /\ req' = NewRequest
  /\ UNCHANGED <<arch, flt, dig, run>>

\* One attempt of the current page's _make_request.
RecentAttempt ==
  /\ rec.status = "running"
  /\ req.status = "running"
  /\ \E r \in SourceResponses(HighlightPages(HighlightSamples,
                                             MaxRecords - CountRecords(rec.served),
                                             Len(rec.served) + 1)) :
       req' = make_request_step(req, r)
  /\ rec' = IF req'.status = "raised" THEN recent_raise(rec, req'.error) ELSE rec
  /\ UNCHANGED <<arch, flt, dig, run>>

RecentPage ==
  /\ rec.status = "running"
  /\ req.status = "returned"
  /\ rec' = recent_page(rec, req.body)
  /\ req' = IF rec'.status = "running" THEN NewRequest ELSE req
  /\ UNCHANGED <<arch, flt, dig, run>>

NextRecent ==
  \/ RecentCall
  \/ RecentAttempt
  \/ RecentPage

SpecRecent == InitRecent /\ [][NextRecent]_vars

-----------------------------------------------------------------------------
\* A run of run_digest_generation

\* Largest number of records on all pages of one source in a run.
MaxRunRecords == 2

RunDocSamples == {DocKeptByMoved, DocMalformed}
RunHighlightSamples == {HighlightNew, HighlightNullText}

Init ==
  /\ req = IdleRequest
  /\ arch = IdleArchived
  /\ rec = IdleRecent
  /\ flt = IdleFilter
  /\ dig = IdleDigest
  /\ run = IdleRun

RunStart ==
  /\ run.pc = "idle"
  /\ \E env_ok \in BOOLEAN, repo_ok \in BOOLEAN : run' = run_start(run, env_ok, repo_ok)
  /\ IF run'.pc = "fetch_documents"
     THEN arch' = archived_call(StartDate) /\ req' = NewRequest
     ELSE UNCHANGED <<arch, req>>
  /\ UNCHANGED <<rec, flt, dig>>

\* One attempt of the _make_request of the source that is being walked; its
\* exception leaves the source and the run.
RunDocumentsAttempt ==
  /\ run.pc = "fetch_documents"
  /\ req.status = "running"
  /\ \E r \in SourceResponses(DocPages(RunDocSamples, MaxRunRecords - CountRecords(arch.served),
                                       Len(arch.served) + 1)) :
       req' = make_request_step(req, r)
  /\ arch' = IF req'.status = "raised" THEN archived_raise(arch, req'.error) ELSE arch
  /\ run' = IF req'.status = "raised" THEN run_fetch_failed(run, req'.error.type) ELSE run
  /\ UNCHANGED <<rec, flt, dig>>

RunDocumentsPage ==
  /\ run.pc = "fetch_documents"
  /\ req.status = "returned"
  /\ arch' = archived_page(arch, req.body)
  /\ CASE arch'.status = "running" ->
            req' = NewRequest /\ UNCHANGED <<rec, run>>
       [] arch'.status = "raised" ->
            run' = run_fetch_failed(run, arch'.error.type) /\ UNCHANGED <<req, rec>>
       [] OTHER ->
            /\ run' = run_documents_fetched(run, arch'.all_documents)
            /\ rec' = recent_call(StartDate)
            /\ req' = NewRequest
  /\ UNCHANGED <<flt, dig>>

RunHighlightsAttempt ==
  /\ run.pc = "fetch_highlights"
  /\ req.status = "running"
  /\ \E r \in SourceResponses(HighlightPages(RunHighlightSamples,
                                             MaxRunRecords - CountRecords(rec.served),
                                             Len(rec.served) + 1)) :
       req' = make_request_step(req, r)
  /\ rec' = IF req'.status = "raised" THEN recent_raise(rec, req'.error) ELSE rec
  /\ run' = IF req'.status = "raised" THEN run_fetch_failed(run, req'.error.type) ELSE run
  /\ UNCHANGED <<arch, flt, dig>>

RunHighlightsPage ==
  /\ run.pc = "fetch_highlights"
  /\ req.status = "returned"
  /\ rec' = recent_page(rec, req.body)
  /\ CASE rec'.status = "running" ->
            req' = NewRequest /\ UNCHANGED run
       [] OTHER ->
            run' = run_highlights_fetched(run, rec'.all_highlights) /\ UNCHANGED req
  /\ UNCHANGED <<arch, flt, dig>>

RunPublishCheck ==
  /\ run.pc = "publish_check"
  /\ \E check \in ExistenceChecks : run' = run_publish_checked(run, check)
  /\ UNCHANGED <<req, arch, rec, flt, dig>>

RunPublishWrite ==
  /\ run.pc = "publish_write"
  /\ \E ok \in BOOLEAN : run' = run_publish_written(run, ok)
  /\ UNCHANGED <<req, arch, rec, flt, dig>>

Next ==
  \/ RunStart
  \/ RunDocumentsAttempt
  \/ RunDocumentsPage
  \/ RunHighlightsAttempt
  \/ RunHighlightsPage
  \/ RunPublishCheck
  \/ RunPublishWrite

Spec == Init /\ [][Next]_vars

-----------------------------------------------------------------------------
\* The filter loop of get_archived_documents on one page

MaxFilterLen == 1

Locations == {"archive", "new", Absent}
TimestampValues == {Absent, "", TsOld, TsAt, TsNew, TsNaive, TsBad}

AllDocs ==
  [location : Locations, last_moved_at : TimestampValues, updated_at : TimestampValues]

StartDates == {StartDate, [aware |-> TRUE, t |-> 5]}

InitFilter ==
  /\ req = IdleRequest
  /\ arch = IdleArchived
  /\ rec = IdleRecent
  /\ run = IdleRun
  /\ dig = IdleDigest
  /\ flt \in [status : {"called"},
              documents : SeqsUpTo(AllDocs, MaxFilterLen),
              start_date : StartDates,
              out : {[error |-> "", filtered |-> <<>>]}]

FilterPage ==
  /\ flt.status = "called"
  /\ flt' = [flt EXCEPT !.status = "done",
                        !.out = FilterDocuments(flt.documents, flt.start_date)]
  /\ UNCHANGED <<req, arch, rec, run, dig>>

NextFilter == FilterPage

SpecFilter == InitFilter /\ [][NextFilter]_vars

-----------------------------------------------------------------------------------------------------------------------------------------------------
\* process_weekly_data followed by generate_digest on given lists, and
\* generate_digest on the processed data of its tests

InitDigest ==
  /\ req = IdleRequest
  /\ arch = IdleArchived
  /\ rec = IdleRecent
  /\ flt = IdleFilter
  /\ run = IdleRun
  /\ \/ dig \in [pc : {"input"},
                 calls : {<<>>},
                 documents : SeqsUpTo(DigestDocSamples, MaxDocs),
                 highlights : SeqsUpTo(DigestHighlightSamples, MaxHighlights),
                 processed : {IdleDigest.processed},
                 rendered : {NoMarkdown}]
     \/ \E processed_data \in TestFixtures \cup
                              {WithLocationBreakdown(f) : f \in TestFixtures} :
          dig = [IdleDigest EXCEPT !.pc = "processed",
                                   !.processed.report = processed_data]

DigestAggregate ==
  /\ dig.pc = "input"
  /\ dig' = digest_aggregate(dig)
  /\ UNCHANGED <<req, arch, rec, flt, run>>

DigestRender ==
  /\ dig.pc = "processed"
  /\ dig' = digest_render(dig)
  /\ UNCHANGED <<req, arch, rec, flt, run>>

NextDigest ==
  \/ DigestAggregate
  \/ DigestRender

SpecDigest == InitDigest /\ [][NextDigest]_vars

-----
\* Properties of get_archived_documents

\* A timestamp field that holds a timestamp.
Present(ts) == ts # Absent /\ ts # None /\ ts # ""

\* lastMovedAt when present, otherwise updatedAt when present.
DecidingTimestamp(doc) ==
  IF Present(doc.last_moved_at) THEN doc.last_moved_at
  ELSE IF Present(doc.updated_at) THEN doc.updated_at
  ELSE Absent

\* The record is one the spec keeps: in the archive, with a deciding
\* timestamp that is not before since.
Wanted(doc, since) ==
  /\ doc.location = "archive"
  /\ DecidingTimestamp(doc) # Absent
  /\ ParseTimestamp(DecidingTimestamp(doc)).ok
  /\ ParseTimestamp(DecidingTimestamp(doc)).t >= since.t

Malformed(doc) ==
  DecidingTimestamp(doc) # Absent /\ ~ParseTimestamp(DecidingTimestamp(doc)).ok

WantedOf(documents, since) == SelectSeq(documents, LAMBDA d : Wanted(d, since))

RECURSIVE WantedOfPages(_, _)
WantedOfPages(pages, since) ==
  IF pages = <<>> THEN <<>>
  ELSE WantedOf(Head(pages).results, since) \o WantedOfPages(Tail(pages), since)

\* C6: a walk that returned made one fetch call per page served, every page
\* but the last carried a cursor and the last did not, and the result is the
\* wanted records of the pages in page order then in-page order, duplicates
\* kept.
C6_OneFetchPerPageConcatenated ==
  arch.status = "returned" =>
    LET n == Len(arch.served) IN
    /\ n >= 1
    /\ Len(arch.requests) = n
    /\ \A i \in 1..(n - 1) : Present(arch.served[i].nextPageCursor)
    /\ ~Present(arch.served[n].nextPageCursor)
    /\ arch.all_documents = WantedOfPages(arch.served, arch.start_date)

\* C6 witness: three pages, the third without a cursor, the same record kept
\* from two of them and one record filtered out.
C6_Witness ==
  /\ arch.status = "returned"
  /\ Len(arch.served) = 3
  /\ Len(arch.requests) = 3
  /\ arch.served[1].results = <<DocKeptByMoved, DocMovedTooEarly>>
  /\ arch.served[2].results = <<DocKeptByUpdated>>
  /\ arch.served[3].results = <<DocKeptByMoved>>
  /\ arch.all_documents = <<DocKeptByMoved, DocKeptByUpdated, DocKeptByMoved>>

\* C7: the filter loop puts a record in its result exactly when the record is
\* in the archive and its deciding timestamp (lastMovedAt, else updatedAt) is
\* not before since.
C7_FilterKeepsWanted ==
  (flt.status = "done" /\ flt.out.error = "") =>
    flt.out.filtered = WantedOf(flt.documents, flt.start_date)

\* C7 witness: a record moved before since and updated after it is dropped.
C7_Witness ==
  /\ flt.status = "done"
  /\ flt.out.error = ""
  /\ flt.start_date = StartDate
  /\ flt.documents = <<DocMovedTooEarly>>
  /\ flt.out.filtered = <<>>

\* C8 (as claimed): a page with a record whose timestamp cannot be parsed
\* does not fail the walk; the page's other records are kept or dropped as
\* usual and the walk goes on.
C8_MalformedRecordSkipped ==
  LET n == Len(arch.served) IN
  (n > 0 /\ \E i \in 1..Len(arch.served[n].results) : Malformed(arch.served[n].results[i]))
  => /\ arch.status \in {"running", "returned"}
     /\ arch.all_documents = WantedOfPages(arch.served, arch.start_date)

-----------------------------------------------------------------------------
\* Properties of get_recent_highlights

RECURSIVE ResultsOfPages(_)
ResultsOfPages(pages) ==
  IF pages = <<>> THEN <<>> ELSE Head(pages).results \o ResultsOfPages(Tail(pages))

\* The page ends the walk: it is empty or it names no next page.
IsLastPage(body) == body.results = <<>> \/ ~Present(body.next)

\* C9: a walk that returned requested the pages 1, 2, 3, ... in order, the
\* last page fetched is the first one that is empty or names no next page,
\* and the result is every highlight of every fetched page, in fetch order.
C9_PagesInOrderUnfiltered ==
  rec.status = "returned" =>
    LET n == Len(rec.served) IN
    /\ n >= 1
    /\ Len(rec.requests) = n
    /\ \A i \in 1..n : rec.requests[i].page = i
    /\ \A i \in 1..(n - 1) : ~IsLastPage(rec.served[i])
    /\ IsLastPage(rec.served[n])
    /\ rec.all_highlights = ResultsOfPages(rec.served)

\* C9 witness: three pages; a highlight older than since with empty text, on
\* the last page, is returned like the others.
C9_Witness ==
  /\ rec.status = "returned"
  /\ Len(rec.served) = 3
  /\ rec.served[3].results = <<HighlightOldEmpty>>
  /\ rec.all_highlights = <<HighlightNew, HighlightNew, HighlightOldEmpty>>

-----------------------------------------------------------------------------
\* Properties of run_digest_generation

RunSteps ==
  <<"get_archived_documents", "get_recent_highlights", "process_weekly_data",
    "generate_digest", "create_or_update_file">>

\* C10: the calls of a run are a prefix of fetch documents, fetch highlights,
\* aggregate, render, publish; the publisher is called only after both
\* fetches returned; and when a fetch failed the run has failed with no
\* report, no markdown and no publisher call.
C10_OrderedAndPublishOnlyAfterFetches ==
  /\ Len(run.trace) <= Len(RunSteps)
  /\ run.trace = SubSeq(RunSteps, 1, Len(run.trace))
  /\ rec.status # "idle" => arch.status = "returned"
  /\ run.publish.calls > 0 =>
       /\ arch.status = "returned"
       /\ rec.status = "returned"
       /\ run.processed_data.made
       /\ run.markdown_content.made
  /\ (arch.status = "raised" \/ rec.status = "raised") =>
       /\ run.pc = "failed"
       /\ run.processed_data = NoReport
       /\ run.markdown_content = NoMarkdown
       /\ run.publish = NoPublish
       /\ ~\E i \in 1..Len(run.trace) :
             run.trace[i] \in {"process_weekly_data", "generate_digest",
                               "create_or_update_file"}

\* C10 witness: a run that went through all five steps and published.
C10_Witness ==
  /\ run.pc = "done"
  /\ run.trace = RunSteps
  /\ Len(arch.served) >= 2
  /\ Len(rec.served) >= 2
  /\ run.publish.calls = 1

-----------------------------------------------------------------------------
\* A single _make_request call

FetchBodies == {[results |-> <<>>], [results |-> <<"r1">>]}

InitFetch ==
  /\ req = IdleRequest
  /\ arch = IdleArchived
  /\ rec = IdleRecent
  /\ flt = IdleFilter
  /\ dig = IdleDigest
  /\ run = IdleRun

FetchCall ==
  /\ req.status = "idle"
  /\ req' = NewRequest
  /\ UNCHANGED <<arch, rec, flt, dig, run>>

FetchAttempt ==
  /\ req.status = "running"
  /\ \E r \in Responses(FetchBodies) : req' = make_request_step(req, r)
  /\ UNCHANGED <<arch, rec, flt, dig, run>>

NextFetch ==
  \/ FetchCall
  \/ FetchAttempt

SpecFetch == InitFetch /\ [][NextFetch]_vars

\* The call runs to completion: every enabled loop iteration is taken.
FairSpecFetch == SpecFetch /\ WF_vars(NextFetch)

-----------------------------------------------------------------------------
\* Properties of a single _make_request call

\* The transport outcome of the HTTP attempt with 1-based number i.
IsTransportFailure(r) == r.kind = "exception"
IsRateLimited(r) == r.kind = "response" /\ r.status = 429
IsSuccess(r) == r.kind = "response" /\ r.status >= 200 /\ r.status < 300
IsOtherStatus(r) == r.kind = "response" /\ ~IsSuccess(r) /\ r.status # 429

Finished(rq) == rq.status \in {"returned", "raised"}

\* C1 (as claimed): an attempt answered with a status that is neither 2xx nor
\* 429 is the last attempt of the call, the call has failed, and no backoff
\* wait was performed for it.
C1_OtherStatusIsTerminal ==
  \A i \in 1..Len(req.resps) :
    IsOtherStatus(req.resps[i]) =>
      /\ i = Len(req.resps)
      /\ req.status = "raised"
      /\ Len(req.waits) < i

\* C2: a call makes at most 3 HTTP attempts, a finished call has either
\* returned the JSON body of a 2xx response or raised an error, and every
\* call finishes.
AtMostThreeAttempts ==
  /\ Len(req.resps) <= 3
  /\ req.status = "returned" =>
       /\ IsSuccess(req.resps[Len(req.resps)])
       /\ req.body = req.resps[Len(req.resps)].body
       /\ req.error = NoError
  /\ req.status = "raised" => req.error.type \in {"ReadwiseAPIError", "ValueError"}
  /\ req.status = "running" => Len(req.resps) < 3

C2_TerminatesWithinThreeAttempts ==
  /\ []AtMostThreeAttempts
  /\ (req.status = "running") ~> Finished(req)

\* C2 witness: a call that used its third attempt and then failed.
C2_Witness ==
  /\ req.status = "raised"
  /\ Len(req.resps) = 3
  /\ IsTransportFailure(req.resps[3])

\* C3: after k < 3 transport failures followed by a success the call has
\* returned the successful body and slept exactly k times, 1 * 2^i seconds
\* after the failure with 0-based index i.
C3_BackoffThenSuccess ==
  \A k \in 0..2 :
    ( /\ Len(req.resps) = k + 1
      /\ \A i \in 1..k : IsTransportFailure(req.resps[i])
      /\ IsSuccess(req.resps[k + 1]) )
    => /\ req.status = "returned"
       /\ req.body = req.resps[k + 1].body
       /\ Len(req.waits) = k
       /\ \A i \in 1..k : req.waits[i] = 2 ^ (i - 1)

\* C3 witness: fail, fail, success with waits of 1s then 2s.
C3_Witness ==
  /\ req.status = "returned"
  /\ Len(req.resps) = 3
  /\ IsTransportFailure(req.resps[1])
  /\ IsTransportFailure(req.resps[2])
  /\ req.waits = <<1, 2>>

\* C4 (as claimed): after a 429 at attempt index i the call has slept the
\* Retry-After seconds when the header is a number of seconds, and 1 * 2^i
\* seconds when the header is absent or not parseable, and in both cases it
\* goes on to the next attempt when one is left.
C4_RateLimitWait ==
  LET n == Len(req.resps) IN
  (n > 0 /\ IsRateLimited(req.resps[n])) =>
    LET h == req.resps[n].retry_after
        parsed == PyInt(h)
        expected == IF h # Absent /\ parsed.ok THEN parsed.val ELSE 2 ^ (n - 1)
    IN  expected >= 0 =>
          /\ Len(req.waits) = n
          /\ req.waits[n] = expected
          /\ n < 3 => req.status = "running"

\* C5 (as claimed): when all 3 attempts failed, each by a transport failure
\* or a 429 with a usable or absent Retry-After, the call has raised
\* ReadwiseAPIError carrying the error of the third attempt.
UsableRetryAfter(r) ==
  r.retry_after = Absent \/ (PyInt(r.retry_after).ok /\ PyInt(r.retry_after).val >= 0)

C5_ExhaustedCarriesLastError ==
  ( /\ Len(req.resps) = 3
    /\ \A i \in 1..3 :
         \/ IsTransportFailure(req.resps[i])
         \/ IsRateLimited(req.resps[i]) /\ UsableRetryAfter(req.resps[i]) )
  => /\ req.status = "raised"
     /\ req.error.type = "ReadwiseAPIError"
     /\ IF IsTransportFailure(req.resps[3])
        THEN req.error.cause = "ConnectionError"
        ELSE req.error.cause = "HTTPError" /\ req.error.status = 429

\* C20 (as claimed): backoff waits happen only between attempts: a call sleeps
\* at most 2 times, and a finished call has slept fewer times than it made
\* attempts, also when its third attempt was answered 429.
C20_WaitsOnlyBetweenAttempts ==
  /\ Len(req.waits) <= max_retries - 1
  /\ Finished(req) => Len(req.waits) < Len(req.resps)

-----------------------------------------------------------------------------
\* Properties of process_weekly_data and generate_digest

\* process_weekly_data has been called on the lists of dig, and it returned.
Aggregated == dig.calls # <<>> /\ dig.calls[1] = "process_weekly_data"
Reported == Aggregated /\ dig.processed.error = ""

\* C11 (as claimed): whatever fields of the documents and highlights are
\* missing or null, process_weekly_data raises nothing and returns a report.
C11_AggregatorNeverRaises ==
  Aggregated => dig.processed.error = "" /\ dig.processed.report.made

\* How recent a processed document was moved: the day of its last_moved_at,
\* and before every day when it has none.
MovedRank(doc) ==
  IF Present(doc.last_moved_at) THEN ParseTimestamp(doc.last_moved_at).t ELSE 0 - 1

\* C12 (as claimed): the documents of the report are ordered by last_moved_at
\* descending, those without last_moved_at last, whatever the input order.
C12_DocumentsByLastMovedDescending ==
  Reported =>
    LET documents == dig.processed.report.documents.documents
    IN  \A i, j \in DOMAIN documents :
          i < j => MovedRank(documents[i]) >= MovedRank(documents[j])

\* The key the claims give a document in the breakdown of a field: the value
\* of the field, "unknown" when the field is missing, null or empty.
KeyOrUnknown(doc, field) ==
  IF field \in DOMAIN doc /\ Present(doc[field]) THEN doc[field] ELSE "unknown"

\* C14 (as claimed): each of the category, source and location breakdowns
\* counts every document under its field value, or under "unknown" when the
\* field is absent, null or the empty string.
C14_BreakdownKeysOrUnknown ==
  Reported =>
    LET documents == dig.documents
        stats == dig.processed.report.documents
        Expected(field) == Counter([i \in DOMAIN documents |-> KeyOrUnknown(documents[i], field)])
    IN  /\ stats.category_breakdown = Expected("category")
        /\ stats.source_breakdown = Expected("source")
        /\ stats.location_breakdown = Expected("location")

\* The input highlights whose text is non-empty after trimming, in fetch
\* order, and the highlights of the report.
KeptInputs ==
  SelectSeq(dig.highlights, LAMBDA h : Strip(HighlightText(h)) # "")
OutputHighlights == dig.processed.report.highlights.highlights

\* The fields of input highlight h that output highlight o carries besides
\* text and note, with source = "unknown" attached.
CarriesFieldsOf(o, h) ==
  /\ o.highlighted_at = GetOr(h, "highlighted_at", "")
  /\ o.location = GetOr(h, "location", "")
  /\ o.book_id = GetOr(h, "book_id", None)
  /\ o.readwise_url = GetOr(h, "readwise_url", "")
  /\ o.source = "unknown"

\* C13 (as claimed): the report holds exactly the highlights whose text is
\* non-empty after trimming, in fetch order, totalCount counts them, and
\* each is preserved verbatim (its text and note as fetched) with
\* source = "unknown" attached.
C13_KeptVerbatim ==
  Reported =>
    /\ Len(OutputHighlights) = Len(KeptInputs)
    /\ dig.processed.report.highlights.total_count = Len(KeptInputs)
    /\ \A i \in 1..Len(KeptInputs) :
         /\ i <= Len(OutputHighlights)
         /\ OutputHighlights[i].text = HighlightText(KeptInputs[i])
         /\ OutputHighlights[i].note = GetOr(KeptInputs[i], "note", "")
         /\ CarriesFieldsOf(OutputHighlights[i], KeptInputs[i])

\* C13 (amended): the report holds exactly the highlights whose text is
\* non-empty after trimming, in fetch order, totalCount counts them, and
\* each carries its text and note trimmed of surrounding whitespace, its
\* other fields as fetched, and source = "unknown".
C13_KeptTrimmedInFetchOrder ==
  Reported =>
    /\ Len(OutputHighlights) = Len(KeptInputs)
    /\ dig.processed.report.highlights.total_count = Len(KeptInputs)
    /\ \A i \in 1..Len(KeptInputs) :
         /\ i <= Len(OutputHighlights)
         /\ OutputHighlights[i].text = Strip(HighlightText(KeptInputs[i]))
         /\ OutputHighlights[i].note = Strip(GetOr(KeptInputs[i], "note", ""))
         /\ CarriesFieldsOf(OutputHighlights[i], KeptInputs[i])

\* C13 witness: a whitespace-only highlight dropped and a padded one kept
\* with its text and note trimmed.
C13_Witness ==
  /\ Reported
  /\ dig.highlights = <<HighlightBlank, HighlightPadded>>
  /\ dig.processed.report.highlights.total_count = 1
  /\ OutputHighlights[1].text = "Stay curious"
  /\ OutputHighlights[1].note = "why?"

\* The mapping {unknown: n}.
UnknownOnly(n) == [k \in {"unknown"} |-> n]

\* C15 (as claimed): for every list of highlights, the empty list and a list
\* of empty texts included, source_breakdown of the report is exactly
\* {unknown: total_count}.
C15_SourceBreakdownUnknownTotal ==
  Reported =>
    dig.processed.report.highlights.source_breakdown =
      UnknownOnly(dig.processed.report.highlights.total_count)

\* C15 (amended): source_breakdown of the report is {unknown: total_count}
\* when some highlight is kept, and the empty mapping when none is (the
\* empty list and a list of empty texts included).
C15_SourceBreakdownUnknownOrEmpty ==
  Reported =>
    LET highlights == dig.processed.report.highlights
    IN  highlights.source_breakdown =
          IF highlights.total_count > 0
          THEN UnknownOnly(highlights.total_count)
          ELSE EmptyDict

\* C15 witness: two highlights of empty and whitespace-only text give a
\* report with no highlight and an empty source_breakdown.
C15_Witness ==
  /\ Reported
  /\ dig.highlights = <<HighlightOldEmpty, HighlightBlank>>
  /\ dig.processed.report.highlights.total_count = 0
  /\ dig.processed.report.highlights.source_breakdown = EmptyDict

\* floor(a / b) for b > 0, by its defining inequalities.
IsFloorOf(q, a, b) == q * b <= a /\ a < (q + 1) * b

\* C16 (as claimed): the document statistics of every report carry the
\* average words per article, which is floor(total_word_count / total_count)
\* when total_count > 0 and 0 when total_count = 0.
C16_ReportAverageFloorOrZero ==
  Reported =>
    LET documents == dig.processed.report.documents
    IN  /\ "average_words_per_article" \in DOMAIN documents
        /\ IF documents.total_count > 0
           THEN IsFloorOf(documents.average_words_per_article,
                          documents.total_word_count, documents.total_count)
           ELSE documents.average_words_per_article = 0

\* The words a document counts for: its word_count, 0 when that is missing
\* or null.
WordsOrZero(doc) ==
  IF "word_count" \in DOMAIN doc /\ doc.word_count # NullWordCount
  THEN doc.word_count ELSE 0

RECURSIVE SumOfWords(_, _)
SumOfWords(documents, n) ==
  IF n = 0 THEN 0 ELSE SumOfWords(documents, n - 1) + WordsOrZero(documents[n])

\* C17: total_word_count of the report is the sum of the word_count of the
\* input documents, a missing or null word_count counting 0, and total_count
\* is the number of input documents, duplicates included.
C17_TotalsOverAllDocuments ==
  Reported =>
    /\ dig.processed.report.documents.total_count = Len(dig.documents)
    /\ dig.processed.report.documents.total_word_count =
         SumOfWords(dig.documents, Len(dig.documents))

\* C17 witness: the same document twice and one with a null word_count.
C17_Witness ==
  /\ Reported
  /\ dig.documents = <<DocEarly, DocNulls, DocEarly>>
  /\ dig.processed.report.documents.total_count = 3
  /\ dig.processed.report.documents.total_word_count = 2402

\* The sum of the counts of a breakdown.
RECURSIVE SumOfCounts(_, _)
SumOfCounts(breakdown, keys) ==
  IF keys = {} THEN 0
  ELSE LET k == CHOOSE x \in keys : TRUE
       IN  breakdown[k] + SumOfCounts(breakdown, keys \ {k})

\* C18: in every report the counts of the category breakdown, of the source
\* breakdown and of the location breakdown each sum to total_count.
C18_BreakdownsSumToTotal ==
  Reported =>
    LET stats == dig.processed.report.documents
    IN  /\ SumOfCounts(stats.category_breakdown, DOMAIN stats.category_breakdown)
             = stats.total_count
        /\ SumOfCounts(stats.source_breakdown, DOMAIN stats.source_breakdown)
             = stats.total_count
        /\ SumOfCounts(stats.location_breakdown, DOMAIN stats.location_breakdown)
             = stats.total_count

\* C18 witness: three documents, two of them in the same category, source
\* and location.
C18_Witness ==
  /\ Reported
  /\ dig.documents = <<DocEarly, DocLate, DocEarly>>
  /\ dig.processed.report.documents.category_breakdown
       = [k \in {"article", "unknown"} |-> IF k = "article" THEN 2 ELSE 1]
  /\ dig.processed.report.documents.total_count = 3

\* The reading time the tests expect for their word counts, at 225 words a
\* minute: minutes below an hour, hours and minutes from an hour on.
ClaimedReadingTime(total_word_count) ==
  CASE total_word_count = 2250 -> "10 minutes"
    [] total_word_count = 13500 -> "1h 0m"
    [] total_word_count = 15000 -> "1h 7m"
    [] OTHER -> "?"

\* C19 (as claimed): generate_digest on the processed data of
\* TestMarkdownGenerator returns markdown whose overview has a
\* "Time Spent Reading" line with the reading time of the total word count.
C19_FixtureShowsTimeSpentReading ==
  (dig.calls = <<"generate_digest">> /\ dig.processed.report \in TestFixtures) =>
    /\ dig.rendered.made
    /\ \E i \in DOMAIN dig.rendered.overview :
         /\ dig.rendered.overview[i].label = "Time Spent Reading"
         /\ dig.rendered.overview[i].value =
              ClaimedReadingTime(dig.processed.report.documents.total_word_count)

\* C19 (as claimed), on the same data with a location_breakdown added, for
\* which the markdown is returned: its overview has a "Time Spent Reading"
\* line.
FixtureWithLocationShowsTimeSpentReading ==
  (dig.calls = <<"generate_digest">> /\ dig.pc = "rendered") =>
    \E i \in DOMAIN dig.rendered.overview :
      dig.rendered.overview[i].label = "Time Spent Reading"

-----------------------------------------------------------------------------
\* Properties of the requests of get_archived_documents

\* The day of January 2023 an updatedAfter text names.
UpdatedAfterDay(text) ==
  CASE text = "2023-01-01T00:00:00Z" -> 1
    [] text = "2023-01-03T00:00:00Z" -> 3
    [] text = "2023-01-03T00:00:00" -> 3
    [] text = "2023-01-05T00:00:00Z" -> 5
    [] text = "2023-01-05T00:00:00" -> 5
    [] OTHER -> 0

\* C21: the first request of a walk carries no page cursor, request k+1
\* carries exactly the cursor of the response to request k, and every
\* request carries location = archive and an updatedAfter equal to since.
C21_CursorChainedFixedFilter ==
  arch.status # "idle" =>
    /\ Len(arch.requests) >= 1
    /\ arch.requests[1].pageCursor = Absent
    /\ \A k \in 1..(Len(arch.requests) - 1) :
         /\ k <= Len(arch.served)
         /\ arch.requests[k + 1].pageCursor = arch.served[k].nextPageCursor
    /\ \A k \in 1..Len(arch.requests) :
         /\ arch.requests[k].location = "archive"
         /\ UpdatedAfterDay(arch.requests[k].updatedAfter) = arch.start_date.t

\* C21 witness: a walk of three requests, the second and third carrying the
\* cursors of the first and second responses.
C21_Witness ==
  /\ arch.status = "returned"
  /\ Len(arch.requests) = 3
  /\ arch.requests[1].pageCursor = Absent
  /\ arch.requests[2].pageCursor = CursorAfter(1)
  /\ arch.requests[3].pageCursor = CursorAfter(2)
  /\ arch.served[2].nextPageCursor = CursorAfter(2)

-----------------------------------------------------------------------------
\* Properties of create_or_update_file in a run

\* C22: the pipeline calls the publisher at most once; a call checks the
\* file on the target branch and attempts at most one write: an update with
\* the sha of the existing file when the file is found, a create when the
\* check answers 404, and no write when the check fails otherwise, the call
\* then failing with GitHubClientError; a failed write is not repeated.
C22_OneWriteChosenByCheck ==
  LET publish == run.publish IN
  /\ publish.calls <= 1
  /\ Len(publish.writes) <= 1
  /\ publish.check # "none" => publish.calls = 1 /\ publish.ref = target_branch
  /\ publish.check = "found" =>
       /\ Len(publish.writes) = 1
       /\ publish.writes[1].op = "update_file"
       /\ publish.writes[1].sha = existing_sha
       /\ publish.writes[1].branch = target_branch
  /\ publish.check = "404" =>
       /\ Len(publish.writes) = 1
       /\ publish.writes[1].op = "create_file"
       /\ publish.writes[1].sha = Absent
       /\ publish.writes[1].branch = target_branch
  /\ publish.check = "error" =>
       /\ publish.writes = <<>>
       /\ publish.result = "raised"
       /\ run.pc = "failed"
       /\ run.error = "GitHubClientError"
  /\ publish.check = "none" => publish.writes = <<>>
  /\ publish.result = "raised" => run.pc = "failed" /\ run.error = "GitHubClientError"

\* C22 witness: a published run whose check found the file and whose one
\* write was the update with its sha.
C22_Witness ==
  /\ run.pc = "done"
  /\ run.publish.calls = 1
  /\ run.publish.check = "found"
  /\ Len(run.publish.writes) = 1
  /\ run.publish.writes[1].op = "update_file"
  /\ run.publish.writes[1].sha = existing_sha

====
